---- MODULE Spec2Model ----
(***************************************************************************)
(* Bulk object creation against the SCM API: the two create_object /       *)
(* create_objects implementations of the repository,                       *)
(*   post_utils.create_object / create_objects        (impl = "pu")        *)
(*   PanApiHandler.create_object / create_objects     (impl = "pan")       *)
(* with the thread pool, the shared headers mapping, the token store and   *)
(* the global token_refresh_lock.                                          *)
(***************************************************************************)
EXTENDS Integers, Sequences, FiniteSets, TLC

VARIABLES impl, start_index, max_workers, obs, now, store, issued, headers, lock, mainpc,
          results, yielded, w, forcedInEpoch, published, tpc, ret

vars == <<impl, start_index, max_workers, obs, now, store, issued, headers, lock, mainpc,
          results, yielded, w, forcedInEpoch, published, tpc, ret>>

(* ------------------------------ bounds --------------------------------- *)
\* number of object definitions in data
NumDefs == 2
\* largest max_workers handed to the ThreadPoolExecutor
MaxWorkers == 2
\* last instant of the clock
MaxTime == 1
\* token_is_expired on its own: last instant of the clock, and the latest
\* expires_at of the token file, counted from the buffer
MaxClock == 5
MaxExpiry == 5

(* ------------------------- program constants --------------------------- *)
\* retries=2 in the executor.submit calls
Retries == 2
\* the 180 seconds buffer of token_is_expired
Buffer == 180
\* lifetime of a credential handed out by the token endpoint: beyond the buffer
TokenLifetime == Buffer + 1

Defs == 1 .. NumDefs
\* a slice that begins one definition early
SubmittedFromOneBefore == {i \in Defs : i >= start_index}
\* data[start_index:]
Submitted == {i \in Defs : i > start_index}
\* item_data['name']
Name(i) == i

(* ------------------------------ responses ------------------------------ *)
\* A body is the sequence of the words of the parsed JSON error message.
BodyExists == <<"Object", "Already", "Exists">>
BodyInvalidRef == <<"'grp1'", "is", "not", "a", "valid", "reference">>
BodyRate == <<"Max", "retries", "exceeded">>
BodyOther == <<"Invalid", "Object">>

Response(status, json, body) == [kind |-> "response", status |-> status, json |-> json, body |-> body]
NoEvent == [kind |-> "none", status |-> 0, json |-> FALSE, body |-> <<>>]
\* requests.post raised instead of returning
Timeout == [kind |-> "timeout", status |-> 0, json |-> FALSE, body |-> <<>>]
\* the token call of the attempt raised, no request was sent
AuthFailure == [kind |-> "auth", status |-> 0, json |-> FALSE, body |-> <<>>]

\* what requests.post can return; json = FALSE: response.json() raises
Responses ==
  { Response(201, TRUE, <<>>),
    Response(400, TRUE, BodyExists),
    Response(400, TRUE, BodyInvalidRef),
    Response(400, TRUE, BodyRate),
    Response(400, TRUE, BodyOther),
    Response(400, FALSE, <<>>),
    Response(500, TRUE, BodyOther),
    Response(500, FALSE, <<>>) }

\* str.lower(), word by word
LowerWord(x) ==
  CASE x = "Object" -> "object"
    [] x = "Already" -> "already"
    [] x = "Exists" -> "exists"
    [] x = "Max" -> "max"
    [] x = "Invalid" -> "invalid"
    [] OTHER -> x
Lower(s) == [k \in DOMAIN s |-> LowerWord(s[k])]
\* str(error_response): the repr of the parsed dict
Str(body) == <<"{'_errors':">> \o body \o <<"}">>
\* needle in hay
Contains(hay, needle) ==
  \E k \in 1 .. (Len(hay) - Len(needle) + 1) :
     SubSeq(hay, k, k + Len(needle) - 1) = needle

ErrorResponseStr(r) == Lower(Str(r.body))
\* the match without .lower()
IsAlreadyExistsCaseSensitive(r) == Contains(Str(r.body), <<"object", "already", "exists">>)
IsAlreadyExists(r) == Contains(ErrorResponseStr(r), <<"object", "already", "exists">>)
IsInvalidRef(r) == Contains(ErrorResponseStr(r), <<"is", "not", "a", "valid", "reference">>)
IsRateLimited(r) == Contains(ErrorResponseStr(r), <<"max", "retries", "exceeded">>)

(* ------------------------------ outcomes ------------------------------- *)
NoOutcome == [kind |-> "none", name |-> 0, reason |-> ""]
Created(i) == [kind |-> "This object created", name |-> Name(i), reason |-> ""]
Exists(i) == [kind |-> "This object exists", name |-> Name(i), reason |-> ""]
Failed(i, reason) == [kind |-> "error creating object", name |-> Name(i), reason |-> reason]

\* f"Exception: {str(e)}"
ExcReason(msg) ==
  CASE msg = "timed out" -> "Exception: timed out"
    [] msg = "token refresh failed" -> "Exception: token refresh failed"
    [] msg = "Expecting value" -> "Exception: Expecting value"
    [] OTHER -> "Exception: "

(* ------------------------------ token store ---------------------------- *)
AbsentStore == [state |-> "absent", token |-> 0, expires_at |-> 0]
StoreOf(tok, exp) == [state |-> "ok", token |-> tok, expires_at |-> exp]

\* a token file that exists and is no JSON: json.load raises
CorruptStore == [state |-> "corrupt", token |-> 0, expires_at |-> 0]
\* a token file whose JSON has no 'expires_at': token_data['expires_at'] raises
NoExpiryStore == [state |-> "nokey", token |-> 0, expires_at |-> 0]

\* token_is_expired raises: the file exists and cannot be read as a token record
TokenIsExpiredRaises(s) == s.state \in {"corrupt", "nokey"}
\* the buffer added to expires_at in place of subtracted
TokenIsExpiredBufferAdded(s, t) ==
  IF s.state = "ok" THEN t > (s.expires_at + Buffer) ELSE TRUE
\* the comparison with >= in place of >
TokenIsExpiredNonStrict(s, t) ==
  IF s.state = "ok" THEN t >= (s.expires_at - Buffer) ELSE TRUE
\* token_is_expired, for a token file that json.load can read
TokenIsExpired(s, t) ==
  IF s.state = "ok" THEN t > (s.expires_at - Buffer) ELSE TRUE

\* obtain_api_token: whether it asks the token endpoint for a new credential
NeedsFetch(force) == force \/ store.state # "ok" \/ TokenIsExpired(store, now)
FreshStore == StoreOf(issued + 1, now + TokenLifetime)

\* str(e) of the exception an event raises
MsgOf(e) ==
  CASE e.kind = "timeout" -> "timed out"
    [] e.kind = "auth" -> "token refresh failed"
    [] OTHER -> "Expecting value"

\* the event raises in PanApiHandler.create_object: no response, or a non-201 one without JSON
IsException(e) == e.kind # "response" \/ (e.status # 201 /\ ~e.json)

(* ------------------------------ workers -------------------------------- *)
IdleWorker ==
  [pc |-> "idle", attempt |-> 0, tok |-> 0, bound |-> FALSE, nposts |-> 0,
   nsleeps |-> 0, last |-> NoEvent, out |-> NoOutcome, exc |-> "",
   sent |-> 0, cur |-> 0, onlyExc |-> TRUE, onlyInv |-> TRUE, chk |-> 0]

\* The history of one call, the observed one (obs, any of the submitted
\* definitions), is recorded: last (the last event), nposts, nsleeps, sent and
\* cur (the token a POST in flight was sent with, and the one the last completed
\* refresh had put in the headers by then),
\* onlyExc and onlyInv (every attempt so far raised / was answered with an
\* invalid reference), chk (the attempt, counted from 1, of its last token
\* validity check), and the attempt it ended on.
\* The other calls run the same code and keep only what the code itself reads.
Plain(r) ==
  [r EXCEPT !.last = NoEvent, !.nposts = 0, !.nsleeps = 0, !.onlyExc = TRUE,
            !.onlyInv = TRUE, !.sent = 0, !.cur = 0, !.chk = 0,
            !.attempt = IF r.pc \in {"done", "raised"} THEN 0 ELSE @]
\* the observed history after event e
Seen(r, e) ==
  [r EXCEPT !.last = e,
            !.onlyExc = @ /\ IsException(e),
            !.onlyInv = @ /\ e.kind = "response" /\ e.status = 400 /\ e.json /\ e.body = BodyInvalidRef]
Put(i, r) == [w EXCEPT ![i] = IF i = obs THEN r ELSE Plain(r)]

Finished(i) == w[i].pc \in {"done", "raised"}
Running == {i \in Defs : w[i].pc \notin {"idle", "queued", "done", "raised"}}

Init ==
  /\ impl \in {"pu", "pan"}
  /\ start_index \in 0 .. NumDefs
  /\ max_workers \in 1 .. MaxWorkers
  /\ obs \in IF start_index < NumDefs THEN (start_index + 1) .. NumDefs ELSE {NumDefs}
  /\ now = 0
  /\ store \in IF impl = "pu"
               THEN {AbsentStore, StoreOf(0, Buffer - 1), StoreOf(0, Buffer)}
               ELSE {AbsentStore}
  /\ issued = 0
  /\ headers = -1
  /\ lock = 0
  /\ mainpc = "start"
  /\ results = <<>>
  /\ yielded = {}
  /\ w = [i \in Defs |-> IdleWorker]
  /\ forcedInEpoch = 0
  /\ published = 0
  /\ tpc = "off"
  /\ ret = "none"

(* ------------------------------ the clock ------------------------------ *)
\* time.time() advances; an epoch of the credential ends when it expires.
\* Only post_utils reads the clock: PanApiHandler leaves the token to its session.
Tick ==
  /\ impl = "pu"
  /\ mainpc \notin {"returned", "raised"}
  /\ now < MaxTime
  /\ now' = now + 1
  /\ forcedInEpoch' = IF ~TokenIsExpired(store, now) /\ TokenIsExpired(store, now + 1)
                      THEN 0 ELSE forcedInEpoch
  /\ UNCHANGED <<impl, start_index, max_workers, obs, store, issued, headers, lock, mainpc, results, yielded, w, published, tpc, ret>>

(* --------------------- post_utils.create_objects ----------------------- *)
\* access_token = obtain_api_token(..., force_refresh=False); headers["Authorization"] = ...
PUInitToken ==
  /\ impl = "pu" /\ mainpc = "start"
  /\ store' = IF NeedsFetch(FALSE) THEN FreshStore ELSE store
  /\ issued' = IF NeedsFetch(FALSE) THEN issued + 1 ELSE issued
  /\ headers' = store'.token
  /\ mainpc' = "submit"
  /\ UNCHANGED <<impl, start_index, max_workers, obs, now, lock, results, yielded, w, forcedInEpoch, published, tpc, ret>>

\* the token endpoint fails while create_objects initialises the token
PUInitTokenRaise ==
  /\ impl = "pu" /\ mainpc = "start"
  /\ NeedsFetch(FALSE)
  /\ mainpc' = "raised"
  /\ UNCHANGED <<impl, start_index, max_workers, obs, now, store, issued, headers, lock, results, yielded, w, forcedInEpoch, published, tpc, ret>>

\* futures = [executor.submit(create_object, ...) for item_data in data[start_index:]]
Submit ==
  /\ \/ impl = "pu" /\ mainpc = "submit"
     \/ impl = "pan" /\ mainpc = "start"
  /\ w' = [i \in Defs |-> IF i \in Submitted THEN [w[i] EXCEPT !.pc = "queued"] ELSE w[i]]
  /\ mainpc' = "collect"
  /\ UNCHANGED <<impl, start_index, max_workers, obs, now, store, issued, headers, lock, results, yielded, forcedInEpoch, published, tpc, ret>>

\* for future in as_completed(futures): result = future.result(); results.append(result)
Collect(i) ==
  /\ mainpc = "collect"
  /\ i \in Submitted /\ w[i].pc = "done" /\ i \notin yielded
  /\ yielded' = yielded \cup {i}
  /\ results' = Append(results, w[i].out)
  /\ UNCHANGED <<impl, start_index, max_workers, obs, now, store, issued, headers, lock, mainpc, w, forcedInEpoch, published, tpc, ret>>

\* future.result() re-raises the exception that escaped create_object
CollectRaise(i) ==
  /\ mainpc = "collect"
  /\ i \in Submitted /\ w[i].pc = "raised" /\ i \notin yielded
  /\ mainpc' = "unwind"
  /\ UNCHANGED <<impl, start_index, max_workers, obs, now, store, issued, headers, lock, results, yielded, w, forcedInEpoch, published, tpc, ret>>

\* the with block ends (shutdown(wait=True)); return results
Return ==
  /\ mainpc = "collect"
  /\ yielded = Submitted
  /\ mainpc' = "returned"
  /\ UNCHANGED <<impl, start_index, max_workers, obs, now, store, issued, headers, lock, results, yielded, w, forcedInEpoch, published, tpc, ret>>

\* the exception leaves the with block once every worker has finished
Unwind ==
  /\ mainpc = "unwind"
  /\ \A i \in Submitted : Finished(i)
  /\ mainpc' = "raised"
  /\ UNCHANGED <<impl, start_index, max_workers, obs, now, store, issued, headers, lock, results, yielded, w, forcedInEpoch, published, tpc, ret>>

\* a pool that starts a thread per work item, whatever max_workers
PoolFreeUnbounded(i) ==
  /\ mainpc \in {"collect", "unwind"}
  /\ w[i].pc = "queued"
  /\ \A j \in Submitted : j < i => w[j].pc # "queued"
\* a pool thread is free and takes the oldest queued work item
PoolFree(i) ==
  /\ mainpc \in {"collect", "unwind"}
  /\ w[i].pc = "queued"
  /\ \A j \in Submitted : j < i => w[j].pc # "queued"
  /\ Cardinality(Running) < max_workers

(* ---------------------- post_utils.create_object ----------------------- *)
\* range(retries) in place of range(retries + 1)
PUAttemptsShort == Retries
\* for attempt in range(retries + 1)
PUAttempts == Retries + 1

\* a lock that excludes nobody
LockNeverHeld == TRUE
\* token_refresh_lock is not held by another thread
LockFree == lock = 0

\* return: the call's locals (access_token, error_response) end with it
PUReturn(r, res) == [r EXCEPT !.pc = "done", !.out = res, !.tok = 0, !.bound = FALSE]
\* an exception escapes the call
PURaise(r, e) == [r EXCEPT !.pc = "raised", !.exc = e, !.tok = 0, !.bound = FALSE]

\* except Exception as e: logging.error(f"... {error_response}"); return (..., "Exception occurred")
\* error_response is a local that is bound only once a 400 body was parsed
PUExcept(i, r) ==
  IF r.bound
  THEN PUReturn(r, Failed(i, "Exception occurred"))
  ELSE PURaise(r, "UnboundLocalError")

\* a retry that goes straight to the POST, without the guarded block
PUContinueSkipsCheck(i, r) ==
  IF r.attempt + 1 < PUAttempts
  THEN [r EXCEPT !.attempt = @ + 1, !.pc = "post"]
  ELSE PUReturn(r, Failed(i, "Failed after retries"))
\* the next iteration of the for loop, or the return after it
PUContinue(i, r) ==
  IF r.attempt + 1 < PUAttempts
  THEN [r EXCEPT !.attempt = @ + 1, !.pc = "acquire"]
  ELSE PUReturn(r, Failed(i, "Failed after retries"))

\* the if / elif on response.status_code
PUClassify(i, r, resp) ==
  IF resp.status = 201
  THEN PUReturn(r, Created(i))
  ELSE IF resp.status = 400
  THEN IF ~resp.json
       THEN PUExcept(i, r)
       ELSE IF IsAlreadyExists(resp)
            THEN PUReturn(r, Exists(i))
            ELSE IF IsInvalidRef(resp)
                 THEN PUContinue(i, [r EXCEPT !.bound = TRUE, !.nsleeps = @ + 1])
                 ELSE PUReturn(r, Failed(i, "Error: Object creation failed"))
  ELSE PUContinue(i, r)

\* a pool thread enters create_object: obtain_api_token(..., force_refresh=False)
PUStart(i) ==
  /\ impl = "pu" /\ PoolFree(i)
  /\ store' = IF NeedsFetch(FALSE) THEN FreshStore ELSE store
  /\ issued' = IF NeedsFetch(FALSE) THEN issued + 1 ELSE issued
  /\ w' = Put(i, [w[i] EXCEPT !.pc = "sethdr", !.tok = store'.token])
  /\ UNCHANGED <<impl, start_index, max_workers, obs, now, headers, lock, mainpc, results, yielded, forcedInEpoch, published, tpc, ret>>

\* that call raises: it is outside the try, the exception escapes create_object
PUStartRaise(i) ==
  /\ impl = "pu" /\ PoolFree(i)
  /\ NeedsFetch(FALSE)
  /\ w' = Put(i, PURaise(Seen(w[i], AuthFailure), "AuthError"))
  /\ UNCHANGED <<impl, start_index, max_workers, obs, now, store, issued, headers, lock, mainpc, results, yielded, forcedInEpoch, published, tpc, ret>>

\* headers["Authorization"] = f"Bearer {access_token}", before the loop and outside the lock
\* (access_token is not read again before the refresh reassigns it)
PUSetHeader(i) ==
  /\ impl = "pu" /\ w[i].pc = "sethdr"
  /\ headers' = w[i].tok
  /\ w' = Put(i, [w[i] EXCEPT !.pc = "acquire", !.tok = 0])
  /\ UNCHANGED <<impl, start_index, max_workers, obs, now, store, issued, lock, mainpc, results, yielded, forcedInEpoch, published, tpc, ret>>

\* with token_refresh_lock:
PUAcquire(i) ==
  /\ impl = "pu" /\ w[i].pc = "acquire"
  /\ LockFree
  /\ lock' = i
  /\ w' = Put(i, [w[i] EXCEPT !.pc = "check"])
  /\ UNCHANGED <<impl, start_index, max_workers, obs, now, store, issued, headers, mainpc, results, yielded, forcedInEpoch, published, tpc, ret>>

\* a check that leaves the block without releasing the lock when the token is valid
PUCheckKeepsLock(i) ==
  /\ impl = "pu" /\ w[i].pc = "check"
  /\ w' = Put(i, [w[i] EXCEPT !.pc = IF TokenIsExpired(store, now) THEN "refresh" ELSE "post",
                                !.chk = w[i].attempt + 1])
  /\ UNCHANGED <<impl, start_index, max_workers, obs, now, store, issued, headers, lock, mainpc, results, yielded, forcedInEpoch, published, tpc, ret>>

\* if token_is_expired(access_token, token_file): the lock is released when it is not
PUCheck(i) ==
  /\ impl = "pu" /\ w[i].pc = "check"
  /\ IF TokenIsExpired(store, now)
     THEN /\ w' = Put(i, [w[i] EXCEPT !.pc = "refresh", !.chk = w[i].attempt + 1])
          /\ UNCHANGED lock
     ELSE /\ w' = Put(i, [w[i] EXCEPT !.pc = "post", !.chk = w[i].attempt + 1])
          /\ lock' = 0
  /\ UNCHANGED <<impl, start_index, max_workers, obs, now, store, issued, headers, mainpc, results, yielded, forcedInEpoch, published, tpc, ret>>

\* access_token = obtain_api_token(..., force_refresh=True)
PURefresh(i) ==
  /\ impl = "pu" /\ w[i].pc = "refresh"
  /\ store' = FreshStore
  /\ issued' = issued + 1
  /\ forcedInEpoch' = forcedInEpoch + 1
  /\ w' = Put(i, [w[i] EXCEPT !.pc = "sethdr2", !.tok = issued + 1])
  /\ UNCHANGED <<impl, start_index, max_workers, obs, now, headers, lock, mainpc, results, yielded, published, tpc, ret>>

\* the forced refresh raises and the lock stays with the thread
PURefreshRaiseKeepsLock(i) ==
  /\ impl = "pu" /\ w[i].pc = "refresh"
  /\ w' = Put(i, PUExcept(i, Seen(w[i], AuthFailure)))
  /\ UNCHANGED <<impl, start_index, max_workers, obs, now, store, issued, headers, lock, mainpc, results, yielded, forcedInEpoch, published, tpc, ret>>

\* the forced refresh raises inside the try; the with releases the lock
PURefreshRaise(i) ==
  /\ impl = "pu" /\ w[i].pc = "refresh"
  /\ lock' = 0
  /\ w' = Put(i, PUExcept(i, Seen(w[i], AuthFailure)))
  /\ UNCHANGED <<impl, start_index, max_workers, obs, now, store, issued, headers, mainpc, results, yielded, forcedInEpoch, published, tpc, ret>>

\* headers["Authorization"] = f"Bearer {access_token}" under the lock, then the with ends
PUSetHeaderLocked(i) ==
  /\ impl = "pu" /\ w[i].pc = "sethdr2"
  /\ headers' = w[i].tok
  /\ published' = w[i].tok
  /\ lock' = 0
  /\ w' = Put(i, [w[i] EXCEPT !.pc = "post", !.tok = 0])
  /\ UNCHANGED <<impl, start_index, max_workers, obs, now, store, issued, mainpc, results, yielded, forcedInEpoch, tpc, ret>>

\* requests.post(url, headers=headers, ...) is sent with the mapping's current value
PUPost(i) ==
  /\ impl = "pu" /\ w[i].pc = "post"
  /\ w' = Put(i, [w[i] EXCEPT !.pc = "posting", !.nposts = @ + 1,
                                !.sent = headers, !.cur = published])
  /\ UNCHANGED <<impl, start_index, max_workers, obs, now, store, issued, headers, lock, mainpc, results, yielded, forcedInEpoch, published, tpc, ret>>

\* the response arrives and is classified
PUPostReturn(i, resp) ==
  /\ impl = "pu" /\ w[i].pc = "posting"
  /\ w' = Put(i, PUClassify(i, Seen([w[i] EXCEPT !.sent = 0, !.cur = 0], resp), resp))
  /\ UNCHANGED <<impl, start_index, max_workers, obs, now, store, issued, headers, lock, mainpc, results, yielded, forcedInEpoch, published, tpc, ret>>

\* requests.post raises (connection error, timeout=10)
PUPostRaise(i) ==
  /\ impl = "pu" /\ w[i].pc = "posting"
  /\ w' = Put(i, PUExcept(i, Seen([w[i] EXCEPT !.sent = 0, !.cur = 0], Timeout)))
  /\ UNCHANGED <<impl, start_index, max_workers, obs, now, store, issued, headers, lock, mainpc, results, yielded, forcedInEpoch, published, tpc, ret>>

(* -------------------- PanApiHandler.create_object ---------------------- *)
\* for attempt in range(retries + 1)
PanAttempts == Retries + 1

\* the next iteration of the for loop, or the return after it
PanContinue(i, r) ==
  IF r.attempt + 1 < PanAttempts
  THEN [r EXCEPT !.attempt = @ + 1, !.pc = "attempt"]
  ELSE [r EXCEPT !.pc = "done", !.out = Failed(i, "Failed after retries")]

\* the handler re-raising on the last attempt
PanExceptReraise(i, r, msg) ==
  IF r.attempt < Retries
  THEN [r EXCEPT !.attempt = @ + 1, !.pc = "attempt", !.nsleeps = @ + 1]
  ELSE [r EXCEPT !.pc = "raised", !.exc = "Exception"]
\* the handler sleeping without the attempt < retries test
PanExceptAlwaysSleeps(i, r, msg) ==
  IF r.attempt < Retries
  THEN [r EXCEPT !.attempt = @ + 1, !.pc = "attempt", !.nsleeps = @ + 1]
  ELSE [r EXCEPT !.pc = "done", !.nsleeps = @ + 1, !.out = Failed(i, ExcReason(msg))]
\* except Exception as e: sleep and go on while attempt < retries, else return the message
PanExcept(i, r, msg) ==
  IF r.attempt < Retries
  THEN [r EXCEPT !.attempt = @ + 1, !.pc = "attempt", !.nsleeps = @ + 1]
  ELSE [r EXCEPT !.pc = "done", !.out = Failed(i, ExcReason(msg))]

\* the if / else on response.status_code
PanClassify(i, r, resp) ==
  IF resp.status = 201
  THEN [r EXCEPT !.pc = "done", !.out = Created(i)]
  ELSE IF ~resp.json
  THEN PanExcept(i, r, MsgOf(resp))
  ELSE IF resp.status = 400 /\ IsAlreadyExists(resp)
  THEN [r EXCEPT !.pc = "done", !.out = Exists(i)]
  ELSE IF resp.status = 400 /\ IsInvalidRef(resp)
  THEN PanContinue(i, [r EXCEPT !.nsleeps = @ + 1])
  ELSE IF resp.status = 400 /\ IsRateLimited(resp)
  THEN PanContinue(i, [r EXCEPT !.nsleeps = @ + 1])
  ELSE [r EXCEPT !.pc = "done", !.out = Failed(i, "Error: Object creation failed")]

\* a pool thread enters create_object
PanStart(i) ==
  /\ impl = "pan" /\ PoolFree(i)
  /\ w' = Put(i, [w[i] EXCEPT !.pc = "attempt"])
  /\ UNCHANGED <<impl, start_index, max_workers, obs, now, store, issued, headers, lock, mainpc, results, yielded, forcedInEpoch, published, tpc, ret>>

\* self.ensure_valid_token() returns
PanEnsure(i) ==
  /\ impl = "pan" /\ w[i].pc = "attempt"
  /\ w' = Put(i, [w[i] EXCEPT !.pc = "post", !.chk = w[i].attempt + 1])
  /\ UNCHANGED <<impl, start_index, max_workers, obs, now, store, issued, headers, lock, mainpc, results, yielded, forcedInEpoch, published, tpc, ret>>

\* self.session.post(url, json=item_data, timeout=10) is sent
PanPost(i) ==
  /\ impl = "pan" /\ w[i].pc = "post"
  /\ w' = Put(i, [w[i] EXCEPT !.pc = "posting", !.nposts = @ + 1])
  /\ UNCHANGED <<impl, start_index, max_workers, obs, now, store, issued, headers, lock, mainpc, results, yielded, forcedInEpoch, published, tpc, ret>>

\* self.ensure_valid_token() raises
PanEnsureRaise(i) ==
  /\ impl = "pan" /\ w[i].pc = "attempt"
  /\ w' = Put(i, PanExcept(i, Seen(w[i], AuthFailure), MsgOf(AuthFailure)))
  /\ UNCHANGED <<impl, start_index, max_workers, obs, now, store, issued, headers, lock, mainpc, results, yielded, forcedInEpoch, published, tpc, ret>>

\* the response arrives and is classified
PanPostReturn(i, resp) ==
  /\ impl = "pan" /\ w[i].pc = "posting"
  /\ w' = Put(i, PanClassify(i, Seen(w[i], resp), resp))
  /\ UNCHANGED <<impl, start_index, max_workers, obs, now, store, issued, headers, lock, mainpc, results, yielded, forcedInEpoch, published, tpc, ret>>

\* self.session.post raises (connection error, timeout=10)
PanPostRaise(i) ==
  /\ impl = "pan" /\ w[i].pc = "posting"
  /\ w' = Put(i, PanExcept(i, Seen(w[i], Timeout), MsgOf(Timeout)))
  /\ UNCHANGED <<impl, start_index, max_workers, obs, now, store, issued, headers, lock, mainpc, results, yielded, forcedInEpoch, published, tpc, ret>>

(* ------------------------------ the system ----------------------------- *)
\* the thread that called create_objects
Main ==
  \/ PUInitToken
  \/ PUInitTokenRaise
  \/ Submit
  \/ Return
  \/ Unwind
  \/ \E i \in Defs :
       \/ Collect(i)
       \/ CollectRaise(i)

\* the pool thread that runs create_object for definition i
Thread(i) ==
       \/ PUStart(i)
       \/ PUStartRaise(i)
       \/ PUSetHeader(i)
       \/ PUAcquire(i)
       \/ PUCheck(i)
       \/ PURefresh(i)
       \/ PURefreshRaise(i)
       \/ PUSetHeaderLocked(i)
       \/ PUPost(i)
       \/ PUPostRaise(i)
       \/ PanStart(i)
       \/ PanEnsure(i)
       \/ PanPost(i)
       \/ PanEnsureRaise(i)
       \/ PanPostRaise(i)
       \/ \E resp \in Responses :
            \/ PUPostReturn(i, resp)
            \/ PanPostReturn(i, resp)

Next ==
  \/ Tick
  \/ Main
  \/ \E i \in Defs : Thread(i)

Spec == Init /\ [][Next]_vars

\* Threads are scheduled fairly, and every HTTP call and token call returns or
\* raises: a thread that can take a step eventually takes one.
FairSpec == Spec /\ WF_vars(Main) /\ \A i \in Defs : WF_vars(Thread(i))

(* ------------------- token_is_expired, called on its own ---------------- *)
\* One thread runs the guarded block of create_object against a token file in
\* any state and at any instant: tpc is its position, ret what
\* token_is_expired gave it ("True", "False", or "raised").
TokenFiles ==
  {AbsentStore, CorruptStore, NoExpiryStore}
    \cup {StoreOf(0, Buffer + d) : d \in 0 .. MaxExpiry}

TokenInit ==
  /\ impl = "pu"
  /\ start_index = 0
  /\ max_workers = 1
  /\ obs = 1
  /\ now \in 0 .. MaxClock
  /\ store \in TokenFiles
  /\ issued = 0
  /\ headers = -1
  /\ lock = 0
  /\ mainpc = "start"
  /\ results = <<>>
  /\ yielded = {}
  /\ w = [i \in Defs |-> IdleWorker]
  /\ forcedInEpoch = 0
  /\ published = 0
  /\ tpc = "call"
  /\ ret = "none"

\* token_is_expired(access_token, token_file) returns or raises
TokenIsExpiredCall ==
  /\ tpc = "call"
  /\ ret' = IF TokenIsExpiredRaises(store) THEN "raised"
            ELSE IF TokenIsExpired(store, now) THEN "True" ELSE "False"
  /\ tpc' = "returned"
  /\ UNCHANGED <<impl, start_index, max_workers, obs, now, store, issued, headers, lock, mainpc, results, yielded, w, forcedInEpoch, published>>

\* what the attempt does with it: the forced refresh, the POST, or the except block
GuardedBlock ==
  /\ tpc = "returned"
  /\ tpc' = CASE ret = "True" -> "refresh"
              [] ret = "False" -> "post"
              [] OTHER -> "except"
  /\ UNCHANGED <<impl, start_index, max_workers, obs, now, store, issued, headers, lock, mainpc, results, yielded, w, forcedInEpoch, published, ret>>

\* a later check of the same file, by the next attempt or the next call
NextAttempt ==
  /\ tpc \in {"refresh", "post", "except"}
  /\ now < MaxClock
  /\ now' = now + 1
  /\ tpc' = "call"
  /\ ret' = "none"
  /\ UNCHANGED <<impl, start_index, max_workers, obs, store, issued, headers, lock, mainpc, results, yielded, w, forcedInEpoch, published>>

TokenNext ==
  \/ TokenIsExpiredCall
  \/ GuardedBlock
  \/ NextAttempt

TokenSpec == TokenInit /\ [][TokenNext]_vars

(* ------------------------------ the claims ----------------------------- *)
\* the observed call
o == w[obs]
InvalidRefResponse == Response(400, TRUE, BodyInvalidRef)

\* C1: in post_utils, a transport exception raised by an item's POST still ends
\* create_object with a Failed outcome for that item, and create_objects then
\* returns one outcome per submitted item instead of raising.
C1_TransportFailureIsReported ==
  (impl = "pu" /\ o.last = Timeout) =>
     /\ o.pc = "done" /\ o.out = Failed(obs, "Exception occurred")
     /\ mainpc = "raised" => \E i \in Defs : w[i].exc = "AuthError"
     /\ mainpc = "returned" => Len(results) = Cardinality(Submitted)

\* C2: in post_utils, the expiry check and the forced refresh happen under one
\* hold of token_refresh_lock: at most one worker is between its check and the
\* end of its refresh, and each expiry of the stored credential is answered by
\* one forced refresh, whatever the number of workers that met it.
C2_SingleRefresh ==
  impl = "pu" =>
     /\ forcedInEpoch <= 1
     /\ Cardinality({i \in Defs : w[i].pc \in {"check", "refresh", "sethdr2"}}) <= 1
     /\ \A i \in Defs : w[i].pc \in {"check", "refresh", "sethdr2"} => lock = i

\* C2 witness: two workers are past the lock on their first attempt, the
\* credential they met had expired, and one forced refresh was made.
C2_Witness ==
  /\ impl = "pu" /\ forcedInEpoch = 1 /\ issued = 1 /\ lock = 0
  /\ Cardinality({i \in Defs : w[i].pc \in {"post", "posting"} /\ w[i].attempt = 0}) >= 2

\* C3: in post_utils, the bearer token a POST is sent with is the current
\* credential: never a token older than the one that a completed refresh of
\* another worker has already put in the shared headers.
C3_SentTokenIsCurrent ==
  (impl = "pu" /\ o.pc = "posting") => o.sent >= o.cur

\* C4: after PanApiHandler.create_objects returns (start_index = 0), results
\* holds exactly one terminal outcome per submitted definition, and the call
\* does return: no exception leaves a worker or the batch.
C4_OneOutcomePerDefinition ==
  (impl = "pan" /\ start_index = 0) =>
     /\ mainpc \notin {"unwind", "raised"}
     /\ \A i \in Defs : w[i].pc # "raised"
     /\ \A k \in DOMAIN results :
          /\ results[k].kind \in {"This object created", "This object exists", "error creating object"}
          /\ \A m \in DOMAIN results : results[k].name = results[m].name => k = m
     /\ mainpc = "returned" =>
          /\ Len(results) = NumDefs
          /\ \A i \in Defs : \E k \in DOMAIN results : results[k] = w[i].out /\ results[k].name = Name(i)

\* C4 witness: a returned batch whose outcomes came in another order than the
\* definitions were submitted in, one of them a failure.
C4_Witness ==
  /\ impl = "pan" /\ start_index = 0 /\ mainpc = "returned"
  /\ Len(results) = NumDefs /\ results[1].name = 2
  /\ \E k \in DOMAIN results : results[k].kind = "error creating object"

\* C5: a credential refresh that fails during a create attempt leaves the call
\* at once as an exception (batch-level fatal): the call is neither retried nor
\* ended with an ordinary per-item Failed outcome.
C5_RefreshFailurePropagates ==
  o.last = AuthFailure => o.pc = "raised"

\* C6: a call answered only by HTTP 400 "is not a valid reference" issues its
\* POSTs one per attempt, retries + 1 of them and no more, and ends with the
\* Failed outcome "Failed after retries" (both implementations).
C6_InvalidRefRetriedToTheMax ==
  (o.onlyInv /\ o.last = InvalidRefResponse) =>
     /\ o.nposts <= Retries + 1
     /\ o.nposts = (IF o.pc \in {"posting", "done"} THEN o.attempt + 1 ELSE o.attempt)
     /\ o.pc # "raised"
     /\ o.pc = "done" => (o.nposts = Retries + 1 /\ o.out = Failed(obs, "Failed after retries"))
     /\ o.pc # "done" => o.attempt <= Retries

\* C6 witness: post_utils gave up after retries + 1 invalid-reference answers.
C6_Witness ==
  /\ impl = "pu" /\ o.pc = "done" /\ o.onlyInv /\ o.last = InvalidRefResponse
  /\ o.nposts = Retries + 1

\* C7: a 201, and a 400 whose body holds "object already exists" in any case,
\* end the call on the attempt they arrive on with Created / AlreadyExists: no
\* sleep and no POST follows; a 201 on the first attempt means one POST.
C7_TerminalResponseEndsTheCall ==
  /\ (o.last.kind = "response" /\ o.last.status = 201) =>
        /\ o.pc = "done" /\ o.out = Created(obs)
        /\ o.nsleeps <= o.attempt /\ o.nposts <= o.attempt + 1
        /\ o.attempt = 0 => (o.nposts = 1 /\ o.nsleeps = 0)
  /\ (o.last = Response(400, TRUE, BodyExists)) =>
        /\ o.pc = "done" /\ o.out = Exists(obs)
        /\ o.nsleeps <= o.attempt /\ o.nposts <= o.attempt + 1

\* C7 witness: "Object Already Exists" arrived on a retry of PanApiHandler.
C7_Witness ==
  /\ impl = "pan" /\ o.last = Response(400, TRUE, BodyExists) /\ o.attempt = 1
  /\ o.nposts = 2

\* C8: a response that is neither 201 nor 400 (HTTP 500) ends the call on that
\* attempt with the Failed outcome "Error: Object creation failed".
C8_OtherStatusIsTerminal ==
  (o.last = Response(500, TRUE, BodyOther)) =>
     o.pc = "done" /\ o.out = Failed(obs, "Error: Object creation failed")

\* C9: in post_utils, a transport exception on an attempt with attempts left
\* is retried: the call goes on, and "Exception occurred" is returned only
\* from the last attempt.
C9_TransportExceptionRetried ==
  impl = "pu" =>
     /\ (o.last = Timeout /\ o.attempt < Retries) => o.pc \notin {"done", "raised"}
     /\ o.out.reason = "Exception occurred" => o.attempt = Retries

\* C10: in PanApiHandler.create_object, a call whose every attempt raises makes
\* retries + 1 attempts, sleeps after each attempt but the last, and returns a
\* Failed outcome with the last exception's message; no exception escapes.
C10_AllAttemptsRaise ==
  impl = "pan" =>
     /\ o.pc # "raised"
     /\ (o.onlyExc /\ o.last # NoEvent) =>
          /\ o.nsleeps = o.attempt
          /\ o.pc = "done" =>
               /\ o.attempt = Retries /\ o.nsleeps = Retries
               /\ o.out.kind = "error creating object" /\ o.out.name = Name(obs)
               /\ o.last.kind = "timeout" => o.out.reason = "Exception: timed out"
               /\ o.last.kind = "auth" => o.out.reason = "Exception: token refresh failed"
               /\ o.last.kind = "response" => o.out.reason = "Exception: Expecting value"

\* C10 witness: three attempts raised, the last one a timeout of the POST.
C10_Witness ==
  /\ impl = "pan" /\ o.pc = "done" /\ o.onlyExc /\ o.last = Timeout
  /\ o.attempt = Retries /\ o.nsleeps = Retries

RateLimitResponse == Response(400, TRUE, BodyRate)

\* C11: an HTTP 400 whose body holds "max retries exceeded" is retried like an
\* invalid reference in both implementations: the call goes on while attempts
\* remain, and ends only after the last one, with "Failed after retries".
C11_RateLimitIsRetried ==
  (o.last = RateLimitResponse) =>
     /\ o.pc # "raised"
     /\ o.pc = "done" => (o.attempt = Retries /\ o.out = Failed(obs, "Failed after retries"))

\* C12: for a token file that can be read, token_is_expired returns True exactly
\* when now > expires_at - 180: at now = expires_at - 180 the token is still
\* valid, at every later instant it is expired.
C12_ExpiredExactlyPastTheBuffer ==
  (tpc = "returned" /\ store.state = "ok") =>
     /\ ret \in {"True", "False"}
     /\ ret = "True" <=> now > store.expires_at - Buffer
     /\ now = store.expires_at - Buffer => ret = "False"
     /\ now >= store.expires_at - Buffer + 1 => ret = "True"

\* C12 witness: the check was made at now = expires_at - 180 and said valid.
C12_Witness ==
  /\ tpc = "returned" /\ store.state = "ok"
  /\ now = store.expires_at - Buffer /\ ret = "False"

\* C13 as the specification states it: at now = expires_at - 181 the token is
\* expired, at now = expires_at - 179 it is valid.
C13_AsStated ==
  (tpc = "returned" /\ store.state = "ok") =>
     /\ now = store.expires_at - 181 => ret = "True"
     /\ now = store.expires_at - 179 => ret = "False"

\* C13, amended: at now = expires_at - 181 the token is valid (the buffer has
\* not begun), at now = expires_at - 179 it is expired (inside the buffer).
C13_ValidBeforeTheBufferExpiredInside ==
  (tpc = "returned" /\ store.state = "ok") =>
     /\ now = store.expires_at - 181 => ret = "False"
     /\ now = store.expires_at - 179 => ret = "True"

\* C13 witness: the check made at now = expires_at - 179 said expired.
C13_Witness ==
  /\ tpc = "returned" /\ store.state = "ok"
  /\ now = store.expires_at - 179 /\ ret = "True"

\* C14: a token file that is absent or cannot be read counts as an expired
\* token: token_is_expired says expired, and the attempt goes on to the forced
\* refresh instead of failing.
C14_UnreadableStoreIsExpired ==
  store.state # "ok" =>
     /\ tpc = "returned" => ret = "True"
     /\ tpc \notin {"call", "returned"} => tpc = "refresh"

\* the create_object invocations in progress, and the POSTs in flight
InProgress == {i \in Defs : w[i].pc \notin {"idle", "queued", "done", "raised"}}
InFlight == {i \in Defs : w[i].pc = "posting"}

\* C15: at every instant of a create_objects run, at most max_workers
\* create_object invocations are in progress, and so at most max_workers POSTs
\* are in flight (both implementations).
C15_InFlightWithinMaxWorkers ==
  /\ Cardinality(InProgress) <= max_workers
  /\ Cardinality(InFlight) <= max_workers

\* C15 witness: with max_workers = 1, one POST is in flight while a later
\* definition waits in the pool's queue.
C15_Witness ==
  /\ max_workers = 1 /\ Cardinality(InFlight) = 1
  /\ \E j \in Submitted : w[j].pc = "queued"

\* C16: within one create_object call, every POST is preceded in its own
\* attempt by a token validity check (the in-lock token_is_expired of
\* post_utils, ensure_valid_token of PanApiHandler), retries included.
C16_TokenCheckedBeforeEveryPost ==
  o.pc \in {"post", "posting"} => o.chk = o.attempt + 1

\* C16 witness: the POST of the last retry is in flight, its attempt's check made.
C16_Witness ==
  /\ impl = "pu" /\ o.pc = "posting" /\ o.attempt = Retries /\ o.chk = Retries + 1

\* the workers inside the with token_refresh_lock block
Guarded == {i \in Defs : w[i].pc \in {"check", "refresh", "sethdr2"}}

\* C17: in post_utils, token_refresh_lock is held exactly by the worker inside
\* the guarded block (expiry check and refresh): never by a worker whose POST
\* is in flight or whose call has ended, an exception in the block included,
\* so that with POSTs in flight and nobody in the block the lock is free.
C17_LockNotHeldDuringPost ==
  impl = "pu" =>
     /\ lock \in {0} \cup Guarded
     /\ \A i \in Guarded : lock = i
     /\ \A i \in Defs : w[i].pc \in {"post", "posting", "done", "raised"} => lock # i
     /\ Guarded = {} => LockFree

\* C17 witness: the POST of the observed call is in flight on a retry while
\* another worker holds the lock for its expiry check.
C17_Witness ==
  /\ impl = "pu" /\ o.pc = "posting" /\ o.attempt > 0
  /\ \E j \in Defs : w[j].pc = "check" /\ lock = j

\* create_objects has returned or raised
Terminated == mainpc \in {"returned", "raised"}

C19_SleepOnlyBetweenAttempts ==
  (o.onlyInv /\ o.last = InvalidRefResponse) =>
     /\ o.nsleeps <= o.attempt
     /\ o.nsleeps <= Retries

\* C20: create_objects submits the definitions at positions start_index and
\* later, and only those: a definition before start_index is never started (no
\* POST is made for it), the later ones are started in input order, results
\* holds one outcome per collected call, each of a call that has completed,
\* and a run that returns gives len(data) - start_index outcomes, one for
\* each definition from start_index on.
C20_OnlyFromStartIndex ==
  /\ \A i \in Defs : i <= start_index => (w[i].pc = "idle" /\ i \notin yielded)
  /\ \A i, j \in Defs : (start_index < i /\ i < j /\ w[i].pc = "queued") => w[j].pc = "queued"
  /\ Len(results) = Cardinality(yielded)
  /\ \A k \in DOMAIN results : results[k].name > start_index /\ w[results[k].name].pc = "done"
  /\ mainpc = "returned" =>
       /\ Len(results) = NumDefs - start_index
       /\ \A i \in Defs : i > start_index => \E k \in DOMAIN results : results[k].name = Name(i)

\* C20 witness: with start_index = 1 the run returned one outcome, that of the
\* second definition; the first was never started.
C20_Witness ==
  /\ start_index = 1 /\ mainpc = "returned" /\ Len(results) = NumDefs - 1
  /\ w[1].pc = "idle" /\ results[1].name = 2

====
